---------------------------- MODULE Spec2Model ----------------------------
(***************************************************************************)
(* log4rs-gelf: the appender configuration builder (src/appender.rs), the  *)
(* declarative deserializer (src/file.rs) and the forwarding appender.     *)
(*                                                                         *)
(* Durations are integers in milliseconds.  Option<T> is a sequence of     *)
(* length 0 (None) or 1 (Some(v)).  A BTreeMap is a function whose DOMAIN   *)
(* is the set of keys present.                                             *)
(***************************************************************************)
EXTENDS Integers, Sequences, FiniteSets, TLC

VARIABLES
    builder,    \* the BufferAppenderBuilder value carried along the fluent chain
    calls,      \* log of the setter calls applied to the builder so far (inputs)
    cfg,        \* arguments build() handed to gelf_logger's Config builder
    built,      \* "no" | "ok" | "err": outcome of build()
    section,    \* the configuration section given to the deserializer
    tls,        \* whether the crate is compiled with feature "tls"
    parsed,     \* state "pending" | "error" | "ok" with the file::Config parsed
    pc,         \* per thread: "idle" | "send" (inside append, before send)
    local,      \* per thread: the GelfRecord converted by the running append
    appended,   \* per thread: the records its append() calls were given
    results,    \* per thread: the results its append() calls returned
    sends       \* the records processor.send() received, in arrival order

vars == <<builder, calls, cfg, built, section, tls, parsed,
          pc, local, appended, results, sends>>

-----------------------------------------------------------------------------
(* Option<T> *)

None == <<>>

Some(v) == <<v>>

IsSome(o) == Len(o) = 1

unwrap_or(o, d) == IF IsSome(o) THEN o[1] ELSE d

Opt(S) == {None} \cup {Some(v) : v \in S}

-----------------------------------------------------------------------------
(* Bounds of the model *)

MaxCalls == 3

MaxAppends == 3

NThreads == 2

(* Program constants *)

DefaultPort == 12202

DefaultBufferSize == 100

DefaultBufferDurationMs == 500

BuildBufferSize == 100

BuildBufferDurationMs == 500

MillisPerSec == 1000

-----------------------------------------------------------------------------
(* Input domains *)

Levels == {"Informational", "Warning"}

Hostnames == {"127.0.0.1", "localhost"}

Ports == {0, 12201, 12202}

Sizes == {0, 5}

Durations == {0, 1000}

Keys == {"pkg_name", "component"}

Vals == {"rust-cs", "v2"}

\* the mappings extend_additional_field is called with
Maps == {[k \in {"component"} |-> "rust-cs"],
         [k \in {"pkg_name", "component"} |-> "v2"],
         [k \in {"pkg_version"} |-> "v2"]}

-----------------------------------------------------------------------------
(* BTreeMap<Value, Value> *)

EmptyMap == [k \in {} |-> "rust-cs"]

\* BTreeMap::insert: the key maps to the new value, other keys are kept
MapInsert(m, k, v) ==
    [x \in DOMAIN m \cup {k} |-> IF x = k THEN v ELSE m[x]]

\* BTreeMap::extend: inserts every incoming (key, value) pair in turn
RECURSIVE MapExtendFrom(_, _, _)
MapExtendFrom(m, incoming, todo) ==
    IF todo = {} THEN m
    ELSE LET k == CHOOSE x \in todo : TRUE
         IN MapExtendFrom(MapInsert(m, k, incoming[k]), incoming, todo \ {k})

MapExtend(m, incoming) == MapExtendFrom(m, incoming, DOMAIN incoming)

-----------------------------------------------------------------------------
(* BufferAppenderBuilder *)

DefaultLevel == "GelfLevel::default()"

BufferAppenderBuilder_default ==
    [level             |-> DefaultLevel,
     hostname          |-> "127.0.0.1",
     port              |-> DefaultPort,
     use_tls           |-> TRUE,
     async_buffer_size |-> None,
     null_character    |-> TRUE,
     buffer_size       |-> Some(DefaultBufferSize),
     buffer_duration   |-> Some(DefaultBufferDurationMs),
     additional_fields |-> MapInsert(MapInsert(EmptyMap, "pkg_name", "log4rs-gelf"),
                                     "pkg_version", "CARGO_PKG_VERSION"),
     connect_timeout   |-> None,
     write_timeout     |-> None]

set_level(self, level) == [self EXCEPT !.level = level]

set_hostname(self, hostname) == [self EXCEPT !.hostname = hostname]

set_port(self, port) == [self EXCEPT !.port = port]

set_use_tls(self, use_tls) == [self EXCEPT !.use_tls = use_tls]

set_async_buffer_size(self, n) == [self EXCEPT !.async_buffer_size = n]

set_null_character(self, b) == [self EXCEPT !.null_character = b]

set_buffer_size(self, n) == [self EXCEPT !.buffer_size = n]

set_buffer_duration(self, d) == [self EXCEPT !.buffer_duration = d]

put_additional_field(self, key, value) ==
    [self EXCEPT !.additional_fields = MapInsert(@, key, value)]

extend_additional_field_keep(self, m) ==
    [self EXCEPT !.additional_fields = MapExtend(m, @)]

extend_additional_field(self, m) ==
    [self EXCEPT !.additional_fields = MapExtend(@, m)]

set_connect_timeout(self, d) == [self EXCEPT !.connect_timeout = d]

set_write_timeout(self, d) == [self EXCEPT !.write_timeout = d]

\* build(): the arguments handed to gelf_logger's Config builder.
\* async_buffer_size = None means the collaborator's setter is not called.
build_config_raw(self) ==
    [level             |-> self.level,
     hostname          |-> self.hostname,
     port              |-> self.port,
     use_tls           |-> self.use_tls,
     null_character    |-> self.null_character,
     buffer_size       |-> unwrap_or(self.buffer_size, 0),
     buffer_duration   |-> unwrap_or(self.buffer_duration, 0),
     additional_fields |-> self.additional_fields,
     connect_timeout   |-> self.connect_timeout,
     write_timeout     |-> self.write_timeout,
     async_buffer_size |-> self.async_buffer_size]

build_config(self) ==
    [level             |-> self.level,
     hostname          |-> self.hostname,
     port              |-> self.port,
     use_tls           |-> self.use_tls,
     null_character    |-> self.null_character,
     buffer_size       |-> unwrap_or(self.buffer_size, BuildBufferSize),
     buffer_duration   |-> unwrap_or(self.buffer_duration, BuildBufferDurationMs),
     additional_fields |-> self.additional_fields,
     connect_timeout   |-> self.connect_timeout,
     write_timeout     |-> self.write_timeout,
     async_buffer_size |-> self.async_buffer_size]

NoCfg == [none |-> TRUE]

-----------------------------------------------------------------------------
(* The builder chain driven by a caller: SpecBuilder *)

Call(op, arg) == [op |-> op, arg |-> arg]

Idle == [t \in 1..NThreads |-> "idle"]

NoLocal == [t \in 1..NThreads |-> None]

NoSeqs == [t \in 1..NThreads |-> <<>>]

AppendIdle ==
    /\ pc = Idle /\ local = NoLocal /\ appended = NoSeqs
    /\ results = NoSeqs /\ sends = <<>>

NoSection == [none |-> TRUE]

InitBuilder ==
    /\ builder = BufferAppenderBuilder_default
    /\ calls = <<>>
    /\ cfg = NoCfg
    /\ built = "no"
    /\ section = NoSection
    /\ tls = TRUE
    /\ parsed = [state |-> "pending"]
    /\ AppendIdle

rest == <<section, tls, parsed, pc, local, appended, results, sends>>

Chain(op, arg, next) ==
    /\ built = "no"
    /\ Len(calls) < MaxCalls
    /\ builder' = next
    /\ calls' = Append(calls, Call(op, arg))
    /\ UNCHANGED <<cfg, built>>
    /\ UNCHANGED rest

SetLevel == \E v \in Levels : Chain("set_level", v, set_level(builder, v))

SetHostname == \E v \in Hostnames : Chain("set_hostname", v, set_hostname(builder, v))

SetPort == \E v \in Ports : Chain("set_port", v, set_port(builder, v))

SetUseTls == \E v \in BOOLEAN : Chain("set_use_tls", v, set_use_tls(builder, v))

SetAsyncBufferSize ==
    \E v \in Opt({5}) :
        Chain("set_async_buffer_size", v, set_async_buffer_size(builder, v))

SetNullCharacter ==
    \E v \in BOOLEAN : Chain("set_null_character", v, set_null_character(builder, v))

SetBufferSize ==
    \E v \in Opt(Sizes) : Chain("set_buffer_size", v, set_buffer_size(builder, v))

SetBufferDuration ==
    \E v \in Opt({1000}) :
        Chain("set_buffer_duration", v, set_buffer_duration(builder, v))

PutAdditionalField ==
    \E k \in Keys, v \in Vals :
        Chain("put_additional_field", [k2 \in {k} |-> v],
              put_additional_field(builder, k, v))

ExtendAdditionalField ==
    \E m \in Maps :
        Chain("extend_additional_field", m, extend_additional_field(builder, m))

SetConnectTimeout ==
    \E v \in Opt(Durations) :
        Chain("set_connect_timeout", v, set_connect_timeout(builder, v))

SetWriteTimeout ==
    \E v \in Opt(Durations) :
        Chain("set_write_timeout", v, set_write_timeout(builder, v))

\* build(self): consumes the builder; init_processor(&cfg) is the collaborator's
\* constructor and may succeed or fail.
Build ==
    /\ built = "no"
    /\ cfg' = build_config(builder)
    /\ \E outcome \in {"ok", "err"} : built' = outcome
    /\ UNCHANGED <<builder, calls>>
    /\ UNCHANGED rest

NextBuilder ==
    \/ SetLevel \/ SetHostname \/ SetPort \/ SetUseTls \/ SetAsyncBufferSize
    \/ SetNullCharacter \/ SetBufferSize \/ SetBufferDuration
    \/ PutAdditionalField \/ ExtendAdditionalField
    \/ SetConnectTimeout \/ SetWriteTimeout
    \/ Build

SpecBuilder == InitBuilder /\ [][NextBuilder]_vars

-----------------------------------------------------------------------------
(* The declarative deserializer (src/file.rs): SpecDeser *)

\* The section's keys as the configuration file gives them; None = key absent.
\* connect_timeout and write_timeout are in seconds, buffer_duration in ms.
Sections ==
    [level             : Opt(Levels),
     hostname          : Opt({"localhost"}),
     port              : Opt({0, 12202}),
     null_character    : Opt(BOOLEAN),
     buffer_size       : Opt({5}),
     buffer_duration   : Opt({1000}),
     additional_fields : Opt({EmptyMap, [k \in {"component"} |-> "rust-cs"]}),
     connect_timeout   : Opt({3}),
     write_timeout     : Opt({7}),
     use_tls           : Opt(BOOLEAN)]

\* The keys struct Config declares without Option: serde rejects a section
\* that lacks one of them.  use_tls is a field only under feature "tls".
RequiredKeys(t) ==
    {"level", "hostname", "port", "null_character", "additional_fields"}
        \cup (IF t THEN {"use_tls"} ELSE {})

\* #[derive(Deserialize)] struct Config: keys the struct does not declare
\* (buffer_duration; use_tls without feature "tls") are ignored.
parse_config(s, t) ==
    IF \E k \in RequiredKeys(t) : s[k] = None
    THEN [state |-> "error"]
    ELSE [state |-> "ok",
          config |->
            [level             |-> s.level[1],
             hostname          |-> s.hostname[1],
             port              |-> s.port[1],
             null_character    |-> s.null_character[1],
             buffer_size       |-> s.buffer_size,
             additional_fields |-> s.additional_fields[1],
             connect_timeout   |-> s.connect_timeout,
             write_timeout     |-> s.write_timeout,
             use_tls           |-> IF t THEN s.use_tls ELSE None]]

\* Duration::from_secs
from_secs(v) == v * MillisPerSec

\* map_or(None, |v| Some(Duration::from_secs(v)))
timeout_of(o) == IF IsSome(o) THEN Some(from_secs(o[1])) ELSE None

\* the setter calls deserialize() chains onto BufferAppenderBuilder::default()
deserialize_calls_no_size(config, t) ==
    <<Call("set_level", config.level),
      Call("set_hostname", config.hostname),
      Call("set_port", config.port),
      Call("set_null_character", config.null_character),
      Call("extend_additional_field", config.additional_fields),
      Call("set_connect_timeout", timeout_of(config.connect_timeout)),
      Call("set_write_timeout", timeout_of(config.write_timeout))>>
    \o (IF t THEN <<Call("set_use_tls", config.use_tls[1])>> ELSE <<>>)

deserialize_calls(config, t) ==
    <<Call("set_level", config.level),
      Call("set_hostname", config.hostname),
      Call("set_port", config.port),
      Call("set_null_character", config.null_character),
      Call("set_buffer_size", config.buffer_size),
      Call("extend_additional_field", config.additional_fields),
      Call("set_connect_timeout", timeout_of(config.connect_timeout)),
      Call("set_write_timeout", timeout_of(config.write_timeout))>>
    \o (IF t THEN <<Call("set_use_tls", config.use_tls[1])>> ELSE <<>>)

apply_call(self, c) ==
    CASE c.op = "set_level" -> set_level(self, c.arg)
      [] c.op = "set_hostname" -> set_hostname(self, c.arg)
      [] c.op = "set_port" -> set_port(self, c.arg)
      [] c.op = "set_use_tls" -> set_use_tls(self, c.arg)
      [] c.op = "set_null_character" -> set_null_character(self, c.arg)
      [] c.op = "set_buffer_size" -> set_buffer_size(self, c.arg)
      [] c.op = "extend_additional_field" -> extend_additional_field(self, c.arg)
      [] c.op = "set_connect_timeout" -> set_connect_timeout(self, c.arg)
      [] c.op = "set_write_timeout" -> set_write_timeout(self, c.arg)

RECURSIVE apply_calls(_, _)
apply_calls(self, cs) ==
    IF cs = <<>> THEN self ELSE apply_calls(apply_call(self, Head(cs)), Tail(cs))

InitDeser ==
    /\ builder = BufferAppenderBuilder_default
    /\ calls = <<>>
    /\ cfg = NoCfg
    /\ built = "no"
    /\ section \in Sections
    /\ tls \in BOOLEAN
    /\ parsed = [state |-> "pending"]
    /\ AppendIdle

\* the framework's config loader deserializes the section into file::Config
Parse ==
    /\ parsed.state = "pending"
    /\ parsed' = parse_config(section, tls)
    /\ UNCHANGED <<builder, calls, cfg, built, section, tls,
                   pc, local, appended, results, sends>>

\* BufferAppenderDeserializer::deserialize(config): the builder chain, then
\* build(), whose error is passed on by `?`
Deserialize ==
    /\ parsed.state = "ok"
    /\ built = "no"
    /\ calls' = deserialize_calls(parsed.config, tls)
    /\ builder' = apply_calls(BufferAppenderBuilder_default, calls')
    /\ cfg' = build_config(builder')
    /\ \E outcome \in {"ok", "err"} : built' = outcome
    /\ UNCHANGED <<section, tls, parsed, pc, local, appended, results, sends>>

NextDeser == Parse \/ Deserialize

SpecDeser == InitDeser /\ [][NextDeser]_vars

-----------------------------------------------------------------------------
(* impl Append for BufferAppender: SpecAppend *)

Threads == 1..NThreads

\* log::Record values handed to append(): level, message, key/value attributes
Records ==
    {[level |-> "Info", msg |-> "a", kv |-> EmptyMap],
     [level |-> "Error", msg |-> "b", kv |-> [k \in {"user"} |-> "v2"]]}

\* GelfRecord::from(record): a function of the record alone
GelfRecordFrom(record) ==
    [level             |-> record.level,
     short_message     |-> record.msg,
     additional_fields |-> record.kv]

\* the calls of self.processor.send() one append() makes
append_sends_twice(t, g) ==
    <<[thread |-> t, rec |-> g], [thread |-> t, rec |-> g]>>

append_sends(t, g) == <<[thread |-> t, rec |-> g]>>

\* .context(""): Ok stays Ok, an error is wrapped
with_context(r) == IF r = "Ok" THEN "Ok" ELSE "Err(context)"

\* builders an appender is built from before records are appended
SeedCalls ==
    {<<>>,
     <<Call("extend_additional_field", [k \in {"component"} |-> "rust-cs"])>>}

InitAppend ==
    /\ calls \in SeedCalls
    /\ builder = apply_calls(BufferAppenderBuilder_default, calls)
    /\ cfg = build_config(builder)
    /\ built = "ok"
    /\ section = NoSection
    /\ tls = TRUE
    /\ parsed = [state |-> "pending"]
    /\ AppendIdle

RECURSIVE SumLen(_, _)
SumLen(f, S) ==
    IF S = {} THEN 0
    ELSE LET t == CHOOSE x \in S : TRUE IN Len(f[t]) + SumLen(f, S \ {t})

\* append(&self, record) entered on thread t: the record is converted
AppendCall(t) ==
    /\ built = "ok"
    /\ pc[t] = "idle"
    /\ SumLen(appended, Threads) < MaxAppends
    /\ \E r \in Records :
        /\ appended' = [appended EXCEPT ![t] = Append(@, r)]
        /\ local' = [local EXCEPT ![t] = Some(GelfRecordFrom(r))]
    /\ pc' = [pc EXCEPT ![t] = "send"]
    /\ UNCHANGED <<builder, calls, cfg, built, section, tls, parsed, results, sends>>

\* self.processor.send(&gelf_record).context("") and return
AppendSend(t) ==
    /\ pc[t] = "send"
    /\ sends' = sends \o append_sends(t, local[t][1])
    /\ \E r \in {"Ok", "Err"} :
        results' = [results EXCEPT ![t] = Append(@, with_context(r))]
    /\ local' = [local EXCEPT ![t] = None]
    /\ pc' = [pc EXCEPT ![t] = "idle"]
    /\ UNCHANGED <<builder, calls, cfg, built, section, tls, parsed, appended>>

NextAppend == \E t \in Threads : AppendCall(t) \/ AppendSend(t)

SpecAppend == InitAppend /\ [][NextAppend]_vars

-----------------------------------------------------------------------------
(* Properties *)

Max(S) == CHOOSE x \in S : \A y \in S : y <= x

CallsOf(op) == {i \in 1..Len(calls) : calls[i].op = op}

\* the argument of the last call of setter op, or d when op was never called
LastArg(op, d) == IF CallsOf(op) = {} THEN d ELSE calls[Max(CallsOf(op))].arg

FieldCalls ==
    {i \in 1..Len(calls) :
        calls[i].op \in {"put_additional_field", "extend_additional_field"}}

\* the calls that supplied additional-field key k
Supplying(k) == {i \in FieldCalls : k \in DOMAIN calls[i].arg}

AllKeys == Keys \cup {"pkg_name", "pkg_version", "component"}

\* C2: the configuration build() hands to the delivery collaborator has, for
\* every field, the value of the last setter call for it, and for a field never
\* set (or buffer_size / buffer_duration set to None) the documented default.
C2_BuildDeterministic ==
    built # "no" =>
        /\ cfg.level = LastArg("set_level", DefaultLevel)
        /\ cfg.hostname = LastArg("set_hostname", "127.0.0.1")
        /\ cfg.port = LastArg("set_port", 12202)
        /\ cfg.use_tls = LastArg("set_use_tls", TRUE)
        /\ cfg.null_character = LastArg("set_null_character", TRUE)
        /\ LET bs == LastArg("set_buffer_size", None)
           IN cfg.buffer_size = IF bs = None THEN 100 ELSE bs[1]
        /\ LET bd == LastArg("set_buffer_duration", None)
           IN cfg.buffer_duration = IF bd = None THEN 500 ELSE bd[1]
        /\ cfg.connect_timeout = LastArg("set_connect_timeout", None)
        /\ cfg.write_timeout = LastArg("set_write_timeout", None)
        /\ cfg.async_buffer_size = LastArg("set_async_buffer_size", None)
        /\ FieldCalls = {} =>
              DOMAIN cfg.additional_fields = {"pkg_name", "pkg_version"}

\* C2 witness: buffer_size was set to Some(5) and then to None, another field
\* was set, and build() has handed over the configuration.
C2_Witness ==
    /\ built # "no"
    /\ Len(calls) >= 3
    /\ calls[1] = Call("set_buffer_size", Some(5))
    /\ calls[2] = Call("set_buffer_size", None)
    /\ calls[3].op = "set_hostname"

\* C3: the additional fields are a mapping: each key supplied by some put / extend
\* call holds the value of the last call that supplied it, a pre-seeded key never
\* supplied holds its seed, and no other key is present; build() hands over the
\* same mapping.
FieldsAsMapping(m) ==
    /\ DOMAIN m \subseteq AllKeys
    /\ \A k \in AllKeys :
          IF Supplying(k) # {}
          THEN k \in DOMAIN m /\ m[k] = calls[Max(Supplying(k))].arg[k]
          ELSE IF k \in {"pkg_name", "pkg_version"}
               THEN k \in DOMAIN m
                    /\ m[k] = BufferAppenderBuilder_default.additional_fields[k]
               ELSE k \notin DOMAIN m

C3_FieldsMapping ==
    /\ FieldsAsMapping(builder.additional_fields)
    /\ built # "no" => FieldsAsMapping(cfg.additional_fields)

\* C3 witness: pkg_name was put, then supplied again by a merged mapping that
\* also brings component, then component was put again; the appender is built.
C3_Witness ==
    /\ built # "no"
    /\ Len(calls) >= 3
    /\ calls[1] = Call("put_additional_field", [k \in {"pkg_name"} |-> "rust-cs"])
    /\ calls[2] = Call("extend_additional_field",
                       [k \in {"pkg_name", "component"} |-> "v2"])
    /\ calls[3] = Call("put_additional_field", [k \in {"component"} |-> "rust-cs"])

\* C10 (as claimed): every configuration produced by build() has a positive
\* port, a positive buffer_size, and positive timeouts when present.
C10_ConfigInvariants ==
    built # "no" =>
        /\ cfg.port > 0
        /\ cfg.buffer_size > 0
        /\ IsSome(cfg.connect_timeout) => cfg.connect_timeout[1] > 0
        /\ IsSome(cfg.write_timeout) => cfg.write_timeout[1] > 0

-----------------------------------------------------------------------------
(* Properties of the deserializer *)

Given(k) == section[k] # None

OnlyHostPortSize ==
    /\ Given("hostname") /\ Given("port") /\ Given("buffer_size")
    /\ \A k \in DOMAIN section \ {"hostname", "port", "buffer_size"} : ~Given(k)

Deserialized == parsed.state = "error" \/ built # "no"

\* C4 (as claimed): a section giving only hostname, port and buffer_size yields
\* an Appender with those values, everything else at the builder's default.
C4_Original ==
    (OnlyHostPortSize /\ Deserialized) =>
        /\ parsed.state = "ok"
        /\ cfg.hostname = section.hostname[1]
        /\ cfg.port = section.port[1]
        /\ cfg.buffer_size = section.buffer_size[1]
        /\ cfg.level = BufferAppenderBuilder_default.level
        /\ cfg.null_character = BufferAppenderBuilder_default.null_character

\* C4 (amended): a section is parsed iff it gives level, hostname, port,
\* null_character and additional_fields (and use_tls under feature "tls"), so a
\* section giving only hostname, port and buffer_size is rejected; for a parsed
\* section the configuration handed over by build() has the section's hostname,
\* port and buffer_size, and every field the section does not give has the
\* builder's default.
C4_Amended ==
    /\ parsed.state # "pending" =>
          (parsed.state = "error" <=> \E k \in RequiredKeys(tls) : ~Given(k))
    /\ (OnlyHostPortSize /\ parsed.state # "pending") => parsed.state = "error"
    /\ built # "no" =>
        /\ parsed.state = "ok"
        /\ cfg.hostname = section.hostname[1]
        /\ cfg.port = section.port[1]
        /\ cfg.buffer_size = IF Given("buffer_size") THEN section.buffer_size[1] ELSE 100
        /\ ~Given("buffer_duration") => cfg.buffer_duration = 500
        /\ ~Given("connect_timeout") => cfg.connect_timeout = None
        /\ ~Given("write_timeout") => cfg.write_timeout = None
        /\ ~tls => cfg.use_tls = TRUE
        /\ cfg.async_buffer_size = None
        /\ \A k \in {"pkg_name", "pkg_version"} :
              k \notin DOMAIN section.additional_fields[1] =>
                 cfg.additional_fields[k] =
                    BufferAppenderBuilder_default.additional_fields[k]

\* C4 witness: an Appender built from a section that gives hostname, port and
\* buffer_size and, besides these, only the keys the parser requires.
C4_Witness ==
    /\ built = "ok"
    /\ ~tls
    /\ section.hostname = Some("localhost")
    /\ section.port = Some(12202)
    /\ section.buffer_size = Some(5)
    /\ section.additional_fields = Some(EmptyMap)
    /\ ~Given("buffer_duration") /\ ~Given("connect_timeout")
    /\ ~Given("write_timeout") /\ ~Given("use_tls")

\* C5 (as claimed): every listed key the section gives is the value of that
\* field in the configuration built by deserialize(), timeouts read as seconds.
C5_AllKeysCarried ==
    built # "no" =>
        /\ cfg.level = section.level[1]
        /\ cfg.hostname = section.hostname[1]
        /\ cfg.port = section.port[1]
        /\ cfg.null_character = section.null_character[1]
        /\ Given("buffer_size") => cfg.buffer_size = section.buffer_size[1]
        /\ Given("buffer_duration") => cfg.buffer_duration = section.buffer_duration[1]
        /\ \A k \in DOMAIN section.additional_fields[1] :
              cfg.additional_fields[k] = section.additional_fields[1][k]
        /\ Given("connect_timeout") =>
              cfg.connect_timeout = Some(section.connect_timeout[1] * 1000)
        /\ Given("write_timeout") =>
              cfg.write_timeout = Some(section.write_timeout[1] * 1000)

-----------------------------------------------------------------------------
(* Properties of append() *)

RECURSIVE SendsOf(_, _)
\* the records thread t sent, in order
SendsOf(q, t) ==
    IF q = <<>> THEN <<>>
    ELSE IF Head(q).thread = t THEN <<Head(q).rec>> \o SendsOf(Tail(q), t)
         ELSE SendsOf(Tail(q), t)

Returned(t) == Len(appended[t]) - (IF pc[t] = "send" THEN 1 ELSE 0)

=============================================================================
